---- MODULE Spec2Model ----
(***************************************************************************)
(* Real-time subtitle pipeline (realtime_subtitles): the capture driver    *)
(* (audio/capture.py) and the pipeline orchestrator (pipeline.py) as one   *)
(* state machine.                                                          *)
(*                                                                         *)
(* Execution contexts:                                                     *)
(*   - the controller: the thread that calls RealtimePipeline.start() and  *)
(*     stop(); calls are serialised, each call is a few steps (ctl);       *)
(*   - the hardware I/O callback (_audio_callback);                        *)
(*   - capture-processing threads (_process_audio_loop), one created by    *)
(*     every successful AudioCapture.start();                              *)
(*   - transcription worker threads (_transcription_loop), one created by  *)
(*     every RealtimePipeline.start() that passes its guard.               *)
(* Thread objects are never reused: thread i is the one created by the     *)
(* i-th effective start().  A join with a timeout returns either because   *)
(* the thread ended or because the timeout expired; the timeout can only   *)
(* expire while the joined thread is inside a call of unbounded duration   *)
(* (the transcription engine, onChunk), never while it merely polls its    *)
(* queue (the poll is 0.1 s, the joins are 1.0 s and 2.0 s).               *)
(*                                                                         *)
(* Audio is modelled by its length in samples and by where it comes from:  *)
(* ep is the number of effective start() calls at the time the hardware    *)
(* delivered it, st tells that it was delivered while the pipeline was     *)
(* stopped (after a stop() returned and before the next start()).          *)
(***************************************************************************)
EXTENDS Integers, Sequences, FiniteSets, TLC

(***************************************************************************)
(* Bounds of the model.                                                    *)
(***************************************************************************)
MaxStarts == 2        \* effective RealtimePipeline.start() calls
MaxBuffers == 2       \* hardware buffers delivered over the whole run

(***************************************************************************)
(* Program constants.                                                      *)
(***************************************************************************)
SAMPLE_RATE == 16000          \* AudioCapture.SAMPLE_RATE
CHUNK_DURATION_MS == 100      \* AudioCapture.CHUNK_DURATION_MS

\* Loopback devices the driver may find: defaultSampleRate, maxInputChannels.
Devices == { [rate |-> 48000, channels |-> 2] }

\* One modelled hardware buffer carries this many consecutive buffers of
\* frames_per_buffer frames (the accumulator is fed 0.2 s or 0.3 s at a time).
BufferRuns == {2, 3}

Threads == 1..MaxStarts

VARIABLES
  ctl,                  \* controller: position inside start()/stop()
  lastOp,               \* last call that returned: none, start, start_failed, stop
  running,              \* RealtimePipeline._running
  transcription_queue,  \* RealtimePipeline._transcription_queue
  transcription_thread, \* RealtimePipeline._transcription_thread (0 = None)
  wpc,                  \* position of each transcription worker thread
  wseg,                 \* the segment each worker holds (local `audio`)
  buffer,               \* RealtimePipeline._buffer: the accumulator's pending audio
  is_running,           \* AudioCapture._is_running
  callback,             \* AudioCapture._callback is set
  pyaudio,              \* AudioCapture._pyaudio is set
  stream,               \* AudioCapture._stream: the open device (NoDevice = None)
  capture_thread,       \* AudioCapture._capture_thread (0 = None)
  audio_queue,          \* AudioCapture._audio_queue
  cpc,                  \* position of each capture-processing thread
  cargs,                \* (device_rate, channels) each capture thread was given
  cchunk,               \* the chunk each capture thread is delivering
  epoch,                \* number of effective start() calls so far
  nbuf,                 \* hardware buffers delivered so far
  nseg,                 \* segments put on the dispatch queue so far
  calls,                \* history: the segments the engine was called on
  events,               \* history: the segments whose event on_subtitle got
  translator,           \* RealtimePipeline._translator is set
  handled,              \* history: how each call of the engine was handled
  vad,                  \* VoiceActivityDetector: state, counters, residual
  vad_trace,            \* history: the windows evaluated since the last reset
  vad_call,             \* history: the detector's last call, what it returned,
                        \* the state it found, and the samples fed since
                        \* the last reset
  accumulator,          \* the segment accumulator on its own: its
                        \* construction, pending audio and emitted segments
  start_calls,          \* history: start() calls made on a running pipeline
                        \* and on a running driver, and the callback the
                        \* driver holds
  delivered             \* history: the hardware buffers whose chunk was
                        \* handed to onChunk, in the order of the calls

vars == << ctl, lastOp, running, transcription_queue, transcription_thread,
           wpc, wseg, buffer, is_running, callback, pyaudio, stream,
           capture_thread, audio_queue, cpc, cargs, cchunk, epoch, nbuf, nseg,
           calls, events, translator, handled, vad, vad_trace, vad_call,
           accumulator, start_calls, delivered >>

pipeVars == << running, transcription_queue, transcription_thread >>
workerVars == << wpc, wseg >>
capVars == << is_running, callback, pyaudio, stream, capture_thread,
              audio_queue >>
capThreadVars == << cpc, cargs, cchunk >>
histVars == << calls, events >>
\* What the pipeline model leaves alone: the worker's handling of one
\* result in detail, the voice activity detector, and the accumulator on
\* its own.
detailVars ==
  << translator, handled, vad, vad_trace, vad_call, accumulator, start_calls,
     delivered >>

\* No start() on a running object yet; the driver holds the callback of the
\* first start(), if any.
NoStartCalls == [pipeline |-> 0, capture |-> 0, callback |-> 1]

\* RealtimePipeline.__init__'s defaults for the accumulator, in ms.
DefaultArgs ==
  [use_vad |-> TRUE, vad_silence_ms |-> 300,
   min_segment_duration |-> 1000, max_segment_duration |-> 10000]

\* The accumulator __init__ is asked to build.
BufferArgs_NoMinimum(args) ==
  IF args.use_vad
  THEN [use_vad |-> TRUE, min_segment_duration |-> 0,
        max_segment_duration |-> args.max_segment_duration,
        speech_pad_ms |-> args.vad_silence_ms, segment_duration |-> 0]
  ELSE [use_vad |-> FALSE, min_segment_duration |-> 0,
        max_segment_duration |-> 0, speech_pad_ms |-> 0,
        segment_duration |-> args.min_segment_duration]

BufferArgs_DefaultMaximum(args) ==
  IF args.use_vad
  THEN [use_vad |-> TRUE,
        min_segment_duration |-> args.min_segment_duration,
        max_segment_duration |-> DefaultArgs.max_segment_duration,
        speech_pad_ms |-> args.vad_silence_ms, segment_duration |-> 0]
  ELSE [use_vad |-> FALSE, min_segment_duration |-> 0,
        max_segment_duration |-> 0, speech_pad_ms |-> 0,
        segment_duration |-> args.min_segment_duration]

BufferArgs_SegmentFromMax(args) ==
  IF args.use_vad
  THEN [use_vad |-> TRUE,
        min_segment_duration |-> args.min_segment_duration,
        max_segment_duration |-> args.max_segment_duration,
        speech_pad_ms |-> args.vad_silence_ms, segment_duration |-> 0]
  ELSE [use_vad |-> FALSE, min_segment_duration |-> 0,
        max_segment_duration |-> 0, speech_pad_ms |-> 0,
        segment_duration |-> args.max_segment_duration]

\* if use_vad: StreamingAudioBuffer(min_segment_duration=...,
\* max_segment_duration=..., speech_pad_ms=vad_silence_ms, use_vad=True)
\* else: SimpleAudioBuffer(segment_duration=min_segment_duration).
BufferArgs(args) ==
  IF args.use_vad
  THEN [use_vad |-> TRUE,
        min_segment_duration |-> args.min_segment_duration,
        max_segment_duration |-> args.max_segment_duration,
        speech_pad_ms |-> args.vad_silence_ms, segment_duration |-> 0]
  ELSE [use_vad |-> FALSE, min_segment_duration |-> 0,
        max_segment_duration |-> 0, speech_pad_ms |-> 0,
        segment_duration |-> args.min_segment_duration]

\* The accumulator as constructed from the pipeline's arguments: nothing
\* pending, nothing emitted, the detector in SILENCE.
NewAccumulator(args) ==
  [args |-> args, buffer |-> BufferArgs(args), samples |-> 0,
   speaking |-> FALSE, total |-> 0, added |-> 0, last |-> 0,
   emitted |-> << >>, dropped |-> << >>]

NoAudio == [len |-> 0, ep |-> 0, st |-> FALSE]
NoSeg == [id |-> 0, len |-> 0, ep |-> 0, st |-> FALSE]
NoDevice == [rate |-> 0, channels |-> 0]

\* The pipeline is stopped: a stop() has returned and no start() was called since.
Stopped == ctl = "idle" /\ lastOp = "stop"

(***************************************************************************)
(* Pure helpers.                                                           *)
(***************************************************************************)

\* AudioCapture._calculate_chunk_size: int(device_rate * CHUNK_DURATION_MS / 1000)
calculate_chunk_size(device_rate) == (device_rate * CHUNK_DURATION_MS) \div 1000

\* np.frombuffer + reshape(-1, channels).mean(axis=1): samples -> mono frames
to_mono(samples, channels) ==
  IF channels > 1 THEN samples \div channels ELSE samples

\* The lengths and rates of this model at which the double product
\* len / rate * 16000 falls just below the integer it stands for, so that
\* int() gives one less: 3003 / 48000 * 16000 is 1000.9999999999999.
FloatShort == { << 3003, 48000 >> }

\* A _resample that scales by the inverse ratio.
resample_Inverted(len, original_rate) ==
  IF original_rate = SAMPLE_RATE THEN len
  ELSE (len * original_rate) \div SAMPLE_RATE

\* AudioCapture._resample, on lengths.  int(len / rate * 16000) is the floor
\* of the exact quotient for the rates and lengths of this model, but for
\* those of FloatShort.
resample(len, original_rate) ==
  IF original_rate = SAMPLE_RATE THEN len
  ELSE IF << len, original_rate >> \in FloatShort
       THEN (len * SAMPLE_RATE) \div original_rate - 1
       ELSE (len * SAMPLE_RATE) \div original_rate

\* _transcription_loop: duration = len(audio) / 16000; duration < 0.3.
\* The quotient of the floats is below the float 0.3 exactly when the
\* length is below 4800: 4800 / 16000 is the float 0.3 itself.
too_short_InclusiveBound(len) == len * 10 <= 3 * 16000
too_short_NoFilter(len) == FALSE
too_short(len) == len * 10 < 3 * 16000

\* Older of two capture epochs (0 = no audio).
OldestEp(a, b) == IF a = 0 THEN b ELSE IF b = 0 THEN a ELSE IF a < b THEN a ELSE b


(***************************************************************************)
(* Initial state: a constructed RealtimePipeline, never started.           *)
(***************************************************************************)
\* VoiceActivityDetector.__init__() and reset(): SILENCE, both counters
\* zero, an empty residual buffer (kept as its length in samples), and the
\* classifier after reset_states() (its recurrent state is kept as the
\* number of windows it has seen since).
VadFresh ==
  [is_speech |-> FALSE, speech_ms |-> 0, silence_ms |-> 0, buffer |-> 0,
   model_state |-> 0]

\* No call of the detector yet.
NoCall == [op |-> "none", value |-> FALSE, from |-> VadFresh, total |-> 0]

Init ==
  /\ ctl = "idle"
  /\ lastOp = "none"
  /\ running = FALSE
  /\ transcription_queue = << >>
  /\ transcription_thread = 0
  /\ wpc = [i \in Threads |-> "none"]
  /\ wseg = [i \in Threads |-> NoSeg]
  /\ buffer = NoAudio
  /\ is_running = FALSE
  /\ callback = FALSE
  /\ pyaudio = FALSE
  /\ stream = NoDevice
  /\ capture_thread = 0
  /\ audio_queue = << >>
  /\ cpc = [i \in Threads |-> "none"]
  /\ cargs = [i \in Threads |-> NoDevice]
  /\ cchunk = [i \in Threads |-> NoAudio]
  /\ epoch = 0
  /\ nbuf = 0
  /\ nseg = 0
  /\ calls = << >>
  /\ events = << >>
  /\ translator = FALSE
  /\ handled = << >>
  /\ vad = VadFresh
  /\ vad_trace = << >>
  /\ vad_call = NoCall
  /\ accumulator = NewAccumulator(DefaultArgs)
  /\ start_calls = NoStartCalls
  /\ delivered = << >>

(***************************************************************************)
(* RealtimePipeline.start()                                                *)
(***************************************************************************)

\* The two things start() does after setting the flag, in program order.
StartOrder_CaptureFirst == << "capture", "worker" >>
StartOrder == << "worker", "capture" >>

\* threading.Thread(target=self._transcription_loop).start()
SpawnWorker(e, nxt) ==
  /\ transcription_thread' = e
  /\ wpc' = [wpc EXCEPT ![e] = "top"]
  /\ ctl' = nxt
  /\ lastOp' = IF nxt = "idle" THEN "start" ELSE lastOp
  /\ UNCHANGED << capVars, cpc, cargs >>

\* An AudioCapture.start() that launches the processing thread before it
\* opens the stream.
CaptureStart_ThreadBeforeOpen(e, nxt) ==
  IF is_running
  THEN /\ ctl' = nxt
       /\ lastOp' = IF nxt = "idle" THEN "start" ELSE lastOp
       /\ UNCHANGED << capVars, cpc, cargs, transcription_thread, wpc >>
  ELSE \E outcome \in {"ok", "init_raises", "open_raises"} : \E dev \in Devices :
       /\ callback' = TRUE
       /\ is_running' = TRUE
       /\ pyaudio' = IF outcome = "init_raises" THEN pyaudio ELSE TRUE
       /\ stream' = IF outcome = "ok" THEN dev ELSE stream
       /\ capture_thread' = IF outcome # "init_raises" THEN e ELSE capture_thread
       /\ cpc' = IF outcome # "init_raises" THEN [cpc EXCEPT ![e] = "top"] ELSE cpc
       /\ cargs' = IF outcome # "init_raises" THEN [cargs EXCEPT ![e] = dev] ELSE cargs
       /\ ctl' = IF outcome = "ok" THEN nxt ELSE "idle"
       /\ lastOp' = IF outcome # "ok" THEN "start_failed"
                    ELSE IF nxt = "idle" THEN "start" ELSE lastOp
       /\ UNCHANGED << audio_queue, transcription_thread, wpc >>

\* An AudioCapture.start() without the guard on the running flag.
CaptureStart_Unguarded(e, nxt) ==
  \E outcome \in {"ok", "init_raises", "open_raises"} : \E dev \in Devices :
       /\ callback' = TRUE
       /\ is_running' = TRUE
       /\ pyaudio' = IF outcome = "init_raises" THEN pyaudio ELSE TRUE
       /\ stream' = IF outcome = "ok" THEN dev ELSE stream
       /\ capture_thread' = IF outcome = "ok" THEN e ELSE capture_thread
       /\ cpc' = IF outcome = "ok" THEN [cpc EXCEPT ![e] = "top"] ELSE cpc
       /\ cargs' = IF outcome = "ok" THEN [cargs EXCEPT ![e] = dev] ELSE cargs
       /\ ctl' = IF outcome = "ok" THEN nxt ELSE "idle"
       /\ lastOp' = IF outcome # "ok" THEN "start_failed"
                    ELSE IF nxt = "idle" THEN "start" ELSE lastOp
       /\ UNCHANGED << audio_queue, transcription_thread, wpc >>

\* AudioCapture.start(callback): the guard, then device lookup and stream
\* open (either may raise, after the flag and the callback are set), then
\* the processing thread and the stream are started.
CaptureStart(e, nxt) ==
  IF is_running
  THEN /\ ctl' = nxt
       /\ lastOp' = IF nxt = "idle" THEN "start" ELSE lastOp
       /\ UNCHANGED << capVars, cpc, cargs, transcription_thread, wpc >>
  ELSE \E outcome \in {"ok", "init_raises", "open_raises"} : \E dev \in Devices :
       /\ callback' = TRUE
       /\ is_running' = TRUE
       /\ pyaudio' = IF outcome = "init_raises" THEN pyaudio ELSE TRUE
       /\ stream' = IF outcome = "ok" THEN dev ELSE stream
       /\ capture_thread' = IF outcome = "ok" THEN e ELSE capture_thread
       /\ cpc' = IF outcome = "ok" THEN [cpc EXCEPT ![e] = "top"] ELSE cpc
       /\ cargs' = IF outcome = "ok" THEN [cargs EXCEPT ![e] = dev] ELSE cargs
       /\ ctl' = IF outcome = "ok" THEN nxt ELSE "idle"
       /\ lastOp' = IF outcome # "ok" THEN "start_failed"
                    ELSE IF nxt = "idle" THEN "start" ELSE lastOp
       /\ UNCHANGED << audio_queue, transcription_thread, wpc >>

StartStep(kind, e, nxt) ==
  IF kind = "worker" THEN SpawnWorker(e, nxt) ELSE CaptureStart(e, nxt)

\* start() on a running pipeline returns at once.
PipelineStartRunning ==
  /\ ctl = "idle"
  /\ running
  /\ UNCHANGED vars

\* start(): the guard, the flag, and the first of the two launches.
PipelineStart ==
  /\ ctl = "idle"
  /\ ~running
  /\ epoch < MaxStarts
  /\ running' = TRUE
  /\ epoch' = epoch + 1
  /\ StartStep(StartOrder[1], epoch + 1, "start2")
  /\ UNCHANGED << transcription_queue, wseg, buffer, cchunk, nbuf, nseg,
                  histVars >>
  /\ UNCHANGED detailVars

\* start(): the second launch, and the return.
PipelineStart2 ==
  /\ ctl = "start2"
  /\ StartStep(StartOrder[2], epoch, "idle")
  /\ UNCHANGED << running, epoch, transcription_queue, wseg, buffer, cchunk,
                  nbuf, nseg, histVars >>
  /\ UNCHANGED detailVars

(***************************************************************************)
(* Bounded joins.                                                          *)
(***************************************************************************)

\* self._capture_thread.join(timeout=1.0) returns: the thread ended, or the
\* timeout expired while it is inside onChunk.
CaptureJoinReturns(j) == cpc[j] = "dead" \/ cpc[j] = "cb"

\* self._transcription_thread.join(timeout=2.0) returns: the thread ended,
\* or the timeout expired while it is inside the transcription engine.
WorkerJoinReturns_NoTimeout(i) == wpc[i] = "dead"
WorkerJoinReturns(i) == wpc[i] = "dead" \/ wpc[i] = "infer"

(***************************************************************************)
(* RealtimePipeline.stop()                                                 *)
(***************************************************************************)

\* A stop() that sets the flags and leaves the stream open.
PipelineStop_StreamLeftOpen ==
  /\ ctl = "idle"
  /\ running' = FALSE
  /\ is_running' = FALSE
  /\ ctl' = "stop_capture_join"
  /\ UNCHANGED << lastOp, transcription_queue, transcription_thread,
                  workerVars, buffer, callback, pyaudio, stream,
                  capture_thread, audio_queue, capThreadVars, epoch, nbuf,
                  nseg, histVars >>
  /\ UNCHANGED detailVars

\* stop(): the flag; AudioCapture.stop(): its flag, stop and close the stream.
PipelineStop ==
  /\ ctl = "idle"
  /\ running' = FALSE
  /\ is_running' = FALSE
  /\ stream' = NoDevice
  /\ ctl' = "stop_capture_join"
  /\ UNCHANGED << lastOp, transcription_queue, transcription_thread,
                  workerVars, buffer, callback, pyaudio, capture_thread,
                  audio_queue, capThreadVars, epoch, nbuf, nseg, histVars >>
  /\ UNCHANGED detailVars

\* An AudioCapture.stop() that does not empty the raw queue.
StopCaptureJoin_NoDrain ==
  /\ ctl = "stop_capture_join"
  /\ capture_thread # 0 => CaptureJoinReturns(capture_thread)
  /\ capture_thread' = 0
  /\ pyaudio' = FALSE
  /\ buffer' = NoAudio
  /\ ctl' = "stop_worker_join"
  /\ UNCHANGED << lastOp, pipeVars, workerVars, is_running, callback, stream,
                  audio_queue, capThreadVars, epoch, nbuf, nseg, histVars >>
  /\ UNCHANGED detailVars

\* AudioCapture.stop(): bounded join of the processing thread, terminate,
\* drain the raw queue; then RealtimePipeline.stop(): self._buffer.reset().
StopCaptureJoin ==
  /\ ctl = "stop_capture_join"
  /\ capture_thread # 0 => CaptureJoinReturns(capture_thread)
  /\ capture_thread' = 0
  /\ pyaudio' = FALSE
  /\ audio_queue' = << >>
  /\ buffer' = NoAudio
  /\ ctl' = "stop_worker_join"
  /\ UNCHANGED << lastOp, pipeVars, workerVars, is_running, callback, stream,
                  capThreadVars, epoch, nbuf, nseg, histVars >>
  /\ UNCHANGED detailVars

\* stop(): bounded join of the transcription thread (the reference is kept).
StopWorkerJoin ==
  /\ ctl = "stop_worker_join"
  /\ transcription_thread # 0 => WorkerJoinReturns(transcription_thread)
  /\ ctl' = "stop_drain"
  /\ UNCHANGED << lastOp, pipeVars, workerVars, buffer, capVars,
                  capThreadVars, epoch, nbuf, nseg, histVars >>
  /\ UNCHANGED detailVars

\* stop(): empty the dispatch queue, and return.
StopDrain ==
  /\ ctl = "stop_drain"
  /\ transcription_queue' = << >>
  /\ ctl' = "idle"
  /\ lastOp' = "stop"
  /\ UNCHANGED << running, transcription_thread, workerVars, buffer, capVars,
                  capThreadVars, epoch, nbuf, nseg, calls, events >>
  /\ UNCHANGED detailVars


(***************************************************************************)
(* The hardware I/O callback.                                              *)
(***************************************************************************)

\* A hardware callback that converts its buffer and runs the accumulator
\* itself.
AudioCallback_ProcessesInline ==
  /\ stream # NoDevice
  /\ nbuf < MaxBuffers
  /\ \E k \in BufferRuns :
       LET n == k * calculate_chunk_size(stream.rate) * stream.channels
           len == resample(to_mono(n, stream.channels), stream.rate)
       IN buffer' = [len |-> buffer.len + len,
                     ep |-> OldestEp(buffer.ep, epoch),
                     st |-> buffer.st \/ Stopped]
  /\ nbuf' = nbuf + 1
  /\ UNCHANGED << ctl, lastOp, pipeVars, workerVars, capVars, capThreadVars,
                  epoch, nseg, histVars >>
  /\ UNCHANGED detailVars

\* AudioCapture._audio_callback: put in_data on the raw queue.  in_data holds
\* frames * channels float32 samples at the device's rate.
AudioCallback ==
  /\ stream # NoDevice
  /\ nbuf < MaxBuffers
  /\ \E k \in BufferRuns :
       audio_queue' = Append(audio_queue,
           [n |-> k * calculate_chunk_size(stream.rate) * stream.channels,
            ep |-> epoch, st |-> Stopped])
  /\ nbuf' = nbuf + 1
  /\ UNCHANGED << ctl, lastOp, pipeVars, workerVars, buffer, is_running,
                  callback, pyaudio, stream, capture_thread, capThreadVars,
                  epoch, nseg, histVars >>
  /\ UNCHANGED detailVars

(***************************************************************************)
(* The capture-processing thread: AudioCapture._process_audio_loop         *)
(***************************************************************************)

\* while self._is_running
ProcessAudioLoopTop(j) ==
  /\ cpc[j] = "top"
  /\ cpc' = [cpc EXCEPT ![j] = IF is_running THEN "get" ELSE "dead"]
  /\ UNCHANGED << ctl, lastOp, pipeVars, workerVars, buffer, capVars, cargs,
                  cchunk, epoch, nbuf, nseg, histVars >>
  /\ UNCHANGED detailVars

\* A loop that hands every chunk to the callback, empty or not.
ProcessAudioLoopGet_NoLengthCheck(j) ==
  /\ cpc[j] = "get"
  /\ IF audio_queue = << >>
     THEN /\ cpc' = [cpc EXCEPT ![j] = "top"]
          /\ UNCHANGED << audio_queue, cchunk >>
     ELSE LET raw == Head(audio_queue)
              len == resample(to_mono(raw.n, cargs[j].channels), cargs[j].rate)
          IN /\ audio_queue' = Tail(audio_queue)
             /\ IF callback
                THEN /\ cchunk' = [cchunk EXCEPT ![j] =
                                     [len |-> len, ep |-> raw.ep, st |-> raw.st]]
                     /\ cpc' = [cpc EXCEPT ![j] = "cb"]
                ELSE /\ cpc' = [cpc EXCEPT ![j] = "top"]
                     /\ UNCHANGED cchunk
  /\ UNCHANGED << ctl, lastOp, pipeVars, workerVars, buffer, is_running,
                  callback, pyaudio, stream, capture_thread, cargs, epoch,
                  nbuf, nseg, histVars >>
  /\ UNCHANGED detailVars

\* self._audio_queue.get(timeout=0.1), or queue.Empty and continue;
\* mono; resample; enter the callback when it is set and the chunk is not
\* empty.
ProcessAudioLoopGet(j) ==
  /\ cpc[j] = "get"
  /\ IF audio_queue = << >>
     THEN /\ cpc' = [cpc EXCEPT ![j] = "top"]
          /\ UNCHANGED << audio_queue, cchunk >>
     ELSE LET raw == Head(audio_queue)
              len == resample(to_mono(raw.n, cargs[j].channels), cargs[j].rate)
          IN /\ audio_queue' = Tail(audio_queue)
             /\ IF callback /\ len > 0
                THEN /\ cchunk' = [cchunk EXCEPT ![j] =
                                     [len |-> len, ep |-> raw.ep, st |-> raw.st]]
                     /\ cpc' = [cpc EXCEPT ![j] = "cb"]
                ELSE /\ cpc' = [cpc EXCEPT ![j] = "top"]
                     /\ UNCHANGED cchunk
  /\ UNCHANGED << ctl, lastOp, pipeVars, workerVars, buffer, is_running,
                  callback, pyaudio, stream, capture_thread, cargs, epoch,
                  nbuf, nseg, histVars >>
  /\ UNCHANGED detailVars

\* The accumulator's add_audio: the chunk joins the pending audio; the
\* accumulator then keeps it, flushes it (on_segment_ready) or discards it.
\* Which of the three depends on the speech content and on the configured
\* durations.
AddAudio(chunk, decision) ==
  LET acc == [len |-> buffer.len + chunk.len,
              ep |-> OldestEp(buffer.ep, chunk.ep),
              st |-> buffer.st \/ chunk.st]
  IN /\ buffer' = IF decision = "keep" THEN acc ELSE NoAudio
     \* RealtimePipeline._on_audio_segment: self._transcription_queue.put(audio)
     /\ IF decision = "flush"
        THEN /\ transcription_queue' = Append(transcription_queue,
                   [id |-> nseg + 1, len |-> acc.len, ep |-> acc.ep, st |-> acc.st])
             /\ nseg' = nseg + 1
        ELSE UNCHANGED << transcription_queue, nseg >>

\* self._callback(audio, SAMPLE_RATE): RealtimePipeline._on_audio, which is
\* self._buffer.add_audio(audio); the callback returns.
ProcessAudioLoopCallback(j) ==
  /\ cpc[j] = "cb"
  /\ \E decision \in {"keep", "flush", "discard"} : AddAudio(cchunk[j], decision)
  /\ cchunk' = [cchunk EXCEPT ![j] = NoAudio]
  /\ cpc' = [cpc EXCEPT ![j] = "top"]
  /\ UNCHANGED << ctl, lastOp, running, transcription_thread, workerVars,
                  capVars, cargs, epoch, nbuf, histVars >>
  /\ UNCHANGED detailVars

(***************************************************************************)
(* The transcription worker: RealtimePipeline._transcription_loop          *)
(***************************************************************************)

\* while self._running
TranscriptionLoopTop(i) ==
  /\ wpc[i] = "top"
  /\ wpc' = [wpc EXCEPT ![i] = IF running THEN "get" ELSE "dead"]
  /\ UNCHANGED << ctl, lastOp, pipeVars, wseg, buffer, capVars, capThreadVars,
                  epoch, nbuf, nseg, histVars >>
  /\ UNCHANGED detailVars

\* A get() with no timeout: the worker waits until a segment arrives.
TranscriptionLoopGet_Blocking(i) ==
  /\ wpc[i] = "get"
  /\ transcription_queue # << >>
  /\ wseg' = [wseg EXCEPT ![i] = Head(transcription_queue)]
  /\ transcription_queue' = Tail(transcription_queue)
  /\ wpc' = [wpc EXCEPT ![i] = "have"]
  /\ UNCHANGED << ctl, lastOp, running, transcription_thread, buffer, capVars,
                  capThreadVars, epoch, nbuf, nseg, histVars >>
  /\ UNCHANGED detailVars

\* audio = self._transcription_queue.get(timeout=0.1), or queue.Empty and
\* continue
TranscriptionLoopGet(i) ==
  /\ wpc[i] = "get"
  /\ IF transcription_queue = << >>
     THEN /\ wpc' = [wpc EXCEPT ![i] = "top"]
          /\ UNCHANGED << transcription_queue, wseg >>
     ELSE /\ wseg' = [wseg EXCEPT ![i] = Head(transcription_queue)]
          /\ transcription_queue' = Tail(transcription_queue)
          /\ wpc' = [wpc EXCEPT ![i] = "have"]
  /\ UNCHANGED << ctl, lastOp, running, transcription_thread, buffer, capVars,
                  capThreadVars, epoch, nbuf, nseg, histVars >>
  /\ UNCHANGED detailVars

\* The duration filter, then the call of self._transcriber.transcribe(audio).
TranscriptionLoopCheck(i) ==
  /\ wpc[i] = "have"
  /\ IF too_short(wseg[i].len)
     THEN /\ wseg' = [wseg EXCEPT ![i] = NoSeg]
          /\ wpc' = [wpc EXCEPT ![i] = "top"]
          /\ UNCHANGED calls
     ELSE /\ calls' = Append(calls, wseg[i].id)
          /\ wpc' = [wpc EXCEPT ![i] = "infer"]
          /\ UNCHANGED wseg
  /\ UNCHANGED << ctl, lastOp, pipeVars, buffer, capVars, capThreadVars,
                  epoch, nbuf, nseg, events >>
  /\ UNCHANGED detailVars

\* transcribe returns a text, an empty text, or raises; for a text the event
\* is built and handed to self.on_subtitle; back to the top of the loop.
TranscriptionLoopResult(i) ==
  /\ wpc[i] = "infer"
  /\ \E result \in {"text", "empty", "raise"} :
       events' = IF result = "text" THEN Append(events, wseg[i].id)
                 ELSE events
  /\ wseg' = [wseg EXCEPT ![i] = NoSeg]
  /\ wpc' = [wpc EXCEPT ![i] = "top"]
  /\ UNCHANGED << ctl, lastOp, pipeVars, buffer, capVars, capThreadVars,
                  epoch, nbuf, nseg, calls >>
  /\ UNCHANGED detailVars

(***************************************************************************)
(* The specification.                                                      *)
(***************************************************************************)
Controller ==
  \/ PipelineStartRunning
  \/ PipelineStart
  \/ PipelineStart2
  \/ PipelineStop
  \/ StopCaptureJoin
  \/ StopWorkerJoin
  \/ StopDrain

CaptureThread(j) ==
  \/ ProcessAudioLoopTop(j)
  \/ ProcessAudioLoopGet(j)
  \/ ProcessAudioLoopCallback(j)

Worker(i) ==
  \/ TranscriptionLoopTop(i)
  \/ TranscriptionLoopGet(i)
  \/ TranscriptionLoopCheck(i)
  \/ TranscriptionLoopResult(i)

Next ==
  \/ Controller
  \/ AudioCallback
  \/ \E j \in Threads : CaptureThread(j)
  \/ \E i \in Threads : Worker(i)

Spec == Init /\ [][Next]_vars


(***************************************************************************)
(* Properties.                                                             *)
(***************************************************************************)

Increasing(s) == \A a, b \in 1..Len(s) : a < b => s[a] < s[b]
AliveWorkers == { i \in Threads : wpc[i] \notin {"none", "dead"} }
Inferring == { i \in Threads : wpc[i] = "infer" }
AliveCaptureThreads == { j \in Threads : cpc[j] \notin {"none", "dead"} }
QueuedSegments == { transcription_queue[k] : k \in 1..Len(transcription_queue) }

\* C1: segments are numbered in the order they are put on the dispatch
\* queue; the engine is called on them in that order, and their events
\* reach on_subtitle in that order.
C1_CaptureOrder == Increasing(calls) /\ Increasing(events)

\* C2: at most one transcription worker loop is alive and at most one call
\* of the transcription engine is in progress, whatever start() and stop()
\* calls were made.
C2_SingleConsumer == Cardinality(AliveWorkers) <= 1 /\ Cardinality(Inferring) <= 1


\* Segments waiting for the duration filter: queued, or just dequeued.
Pending == QueuedSegments \cup { wseg[i] : i \in { t \in Threads : wpc[t] = "have" } }

\* s leaves the queue (or the worker's hands) in this step without being
\* passed to the transcription engine.
Dropped(s) == s \in Pending /\ s \notin Pending' /\ calls' # Append(calls, s.id)

\* C3 as stated: the only segments removed from the dispatch queue without
\* being transcribed are those shorter than 0.3 s (4800 samples).
C3_OnlyShortDropped == [][\A s \in Pending : Dropped(s) => s.len < 4800]_vars

\* C3, amended: a segment leaves the dispatch queue without being passed to
\* the transcription engine only if the worker dequeued it and it is shorter
\* than 0.3 s, or if stop() drains it from the queue; every dequeued segment
\* of at least 4800 samples is passed to the engine.
C3_DroppedShortOrDrained ==
  [][\A s \in Pending : Dropped(s) =>
        \/ s.len < 4800 /\ s \notin QueuedSegments
        \/ ctl = "stop_drain" /\ s \in QueuedSegments]_vars

\* stop() has joined the worker and is about to drain a segment of 0.3 s or
\* more that no worker is left to take.
C3_Witness ==
  /\ ctl = "stop_drain"
  /\ AliveWorkers = {}
  /\ \E s \in QueuedSegments : s.len >= 4800

\* C4: the worker never calls the engine on a segment of fewer than 4800
\* samples: such a segment is discarded with no call and no event and the
\* worker goes back to the top of its loop; a segment of 4800 samples or
\* more is passed to the engine; every event is for a segment the engine
\* was called on.
C4_ShortNeverTranscribed ==
  /\ [](\A i \in Threads : wpc[i] = "infer" => wseg[i].len >= 4800)
  /\ [](\A k \in 1..Len(events) : \E c \in 1..Len(calls) : calls[c] = events[k])
  /\ [][\A i \in Threads : (wpc[i] = "have" /\ wpc'[i] # "have") =>
          IF wseg[i].len < 4800
          THEN wpc'[i] = "top" /\ calls' = calls /\ events' = events
          ELSE wpc'[i] = "infer" /\ calls' = Append(calls, wseg[i].id)]_vars

\* In the first run, the first segment was discarded by the filter and the
\* engine is running on the second, which has exactly 4800 samples.
C4_Witness ==
  /\ epoch = 1 /\ ctl = "idle" /\ lastOp = "start"
  /\ calls = << 2 >>
  /\ \E i \in Threads : wpc[i] = "infer" /\ wseg[i].id = 2 /\ wseg[i].len = 4800

\* The thread that runs stop() is scheduled; so is every loop step of the
\* other threads that is not a call of unbounded duration.  Nothing makes
\* the transcription engine or onChunk return.
InStop == ctl \in {"stop_capture_join", "stop_worker_join", "stop_drain"}
FairStop ==
  /\ Spec
  /\ WF_vars(StopCaptureJoin) /\ WF_vars(StopWorkerJoin) /\ WF_vars(StopDrain)
  /\ \A i \in Threads : /\ WF_vars(TranscriptionLoopTop(i))
                        /\ WF_vars(TranscriptionLoopGet(i))
                        /\ WF_vars(TranscriptionLoopCheck(i))
  /\ \A j \in Threads : /\ WF_vars(ProcessAudioLoopTop(j))
                        /\ WF_vars(ProcessAudioLoopGet(j))

\* C5: a stop() in progress returns, also when the worker is inside the
\* transcription engine and the call never returns.
C5_StopReturns == InStop ~> Stopped

\* stop() has returned and the worker is still inside the engine.
C5_Witness == Stopped /\ Inferring # {}

\* C6: while the pipeline is stopped the stream is closed, so the hardware
\* delivers nothing; the engine never runs on a segment that holds audio
\* delivered while the pipeline was stopped, and no such audio is queued.
C6_NoAudioAfterStop ==
  /\ Stopped => stream = NoDevice
  /\ \A i \in Threads : wpc[i] \in {"have", "infer"} => ~wseg[i].st
  /\ \A s \in QueuedSegments : ~s.st

\* stop() has returned after audio was captured, the hardware has more to
\* deliver, and the worker is still inside the engine.
C6_Witness ==
  /\ Stopped
  /\ nbuf >= 1 /\ nbuf < MaxBuffers
  /\ Inferring # {}

\* C7: when stop() has returned the dispatch queue is empty, and it stays
\* empty until the next start().
C7_QueueEmptyWhileStopped == Stopped => transcription_queue = << >>

\* start() calls that have returned.
StartsReturned == IF ctl = "start2" THEN epoch - 1 ELSE epoch

\* C8: after a stop() followed by a start(), the engine is not called on a
\* segment holding audio captured before that stop(), and no event for such
\* a segment is delivered.
C8_NoStaleAudio ==
  [][\A i \in Threads :
        /\ (wpc[i] = "have" /\ wpc'[i] = "infer") => wseg[i].ep >= StartsReturned
        /\ (wpc[i] = "infer" /\ events' # events) => wseg[i].ep >= StartsReturned]_vars

\* C9: every stop() that returns (on a pipeline never started, after a
\* start(), or after another stop()) leaves the same stopped state: flags
\* false, capture stopped and released, accumulator reset, queues empty.
C9_StopLeavesStoppedState ==
  Stopped =>
    /\ ~running /\ ~is_running
    /\ stream = NoDevice /\ capture_thread = 0 /\ ~pyaudio
    /\ audio_queue = << >>
    /\ buffer = NoAudio
    /\ transcription_queue = << >>

\* C10: whenever the stream is open the worker of the current start() has
\* been started, and no hardware buffer is delivered and no segment is
\* queued before a worker has been started.
C10_WorkerBeforeCapture ==
  /\ stream # NoDevice => wpc[epoch] # "none"
  /\ (nbuf > 0 \/ nseg > 0 \/ AliveCaptureThreads # {}) => wpc[1] # "none"

\* Capture is running and a segment waits on the dispatch queue.
C10_Witness == stream # NoDevice /\ transcription_queue # << >> /\ AliveWorkers # {}


(***************************************************************************)
(* The worker's handling of one result, in detail.                         *)
(*                                                                         *)
(* Spec above keeps of a result only whether an event was handed to        *)
(* on_subtitle.  WorkerSpec runs the same worker loop on a running         *)
(* pipeline and keeps, for every call of the engine, what the three        *)
(* callees did (transcribe, translate, on_subtitle) and the event built.   *)
(* The capture side is replaced by its one interface to the worker,        *)
(* _on_audio_segment.                                                      *)
(***************************************************************************)
MaxSegments == 3

\* The lengths of the segments put on the queue: none, 0.2 s and 0.3 s at
\* 16 kHz.
SegmentLens == {0, 3200, 4800}

\* What a callee does: transcribe returns a text or a blank text or raises;
\* translate returns a text, an empty string or None, or raises;
\* on_subtitle returns or raises.
TranscribeOutcomes == {"text", "empty", "raise"}
TranslateOutcomes == {"text", "empty", "null", "raise"}
DeliverOutcomes == {"returned", "raised"}

NoEvent == [translated_text |-> "none", target_language |-> "none"]

\* __init__: self._translator stays None unless translation is enabled, a
\* backend is importable and create_translator() did not raise.
TranslatorConfigured(enable_translation, available, created) ==
  enable_translation /\ available /\ created

\* Without the inner try/except.
Translated_Unguarded(hasTranslator, translate) ==
  IF hasTranslator THEN translate ELSE "null"

\* translated = None; if self._translator: try translate(text) except: print
Translated(hasTranslator, translate) ==
  IF hasTranslator /\ translate # "raise" THEN translate ELSE "null"

\* With target_language=self.target_language, whatever translated is.
SubtitleEventOf_TargetAlways(translated) ==
  [translated_text |-> translated, target_language |-> "set"]

\* SubtitleEvent(..., translated_text=translated,
\*               target_language=self.target_language if translated else None)
SubtitleEventOf(translated) ==
  [translated_text |-> translated,
   target_language |-> IF translated = "text" THEN "set" ELSE "null"]

\* Without the outer try/except: an exception ends the thread.
HandleResult_Uncaught(hasTranslator, transcribe, translate, deliver) ==
  IF transcribe = "raise"
  THEN [transcribe |-> "raise", translate |-> "not_called",
        on_subtitle |-> "not_called", event |-> NoEvent, alive |-> FALSE]
  ELSE IF transcribe = "empty"
  THEN [transcribe |-> "empty", translate |-> "not_called",
        on_subtitle |-> "not_called", event |-> NoEvent, alive |-> TRUE]
  ELSE [transcribe |-> "text",
        translate |-> IF hasTranslator THEN translate ELSE "not_called",
        on_subtitle |-> deliver,
        event |-> SubtitleEventOf(Translated(hasTranslator, translate)),
        alive |-> deliver # "raised"]

\* Without the test of result.text.strip(): a blank text gets an event too.
HandleResult_DeliversBlank(hasTranslator, transcribe, translate, deliver) ==
  IF transcribe = "raise"
  THEN [transcribe |-> "raise", translate |-> "not_called",
        on_subtitle |-> "not_called", event |-> NoEvent, alive |-> TRUE]
  ELSE [transcribe |-> transcribe,
        translate |-> IF hasTranslator THEN translate ELSE "not_called",
        on_subtitle |-> deliver,
        event |-> SubtitleEventOf(Translated(hasTranslator, translate)),
        alive |-> TRUE]

\* The body of the loop after the duration filter: the outer try/except
\* around transcribe, the event and on_subtitle; the inner one around
\* translate.  alive: the loop goes on to its next iteration.
HandleResult(hasTranslator, transcribe, translate, deliver) ==
  IF transcribe = "raise"
  THEN [transcribe |-> "raise", translate |-> "not_called",
        on_subtitle |-> "not_called", event |-> NoEvent, alive |-> TRUE]
  ELSE IF transcribe = "empty"
  THEN [transcribe |-> "empty", translate |-> "not_called",
        on_subtitle |-> "not_called", event |-> NoEvent, alive |-> TRUE]
  ELSE [transcribe |-> "text",
        translate |-> IF hasTranslator THEN translate ELSE "not_called",
        on_subtitle |-> deliver,
        event |-> SubtitleEventOf(Translated(hasTranslator, translate)),
        alive |-> TRUE]

\* _on_audio_segment: the accumulator hands a segment over.
OnAudioSegment ==
  /\ nseg < MaxSegments
  /\ \E len \in SegmentLens :
       transcription_queue' =
         Append(transcription_queue,
                [id |-> nseg + 1, len |-> len, ep |-> epoch, st |-> FALSE])
  /\ nseg' = nseg + 1
  /\ UNCHANGED << ctl, lastOp, running, transcription_thread, workerVars,
                  buffer, capVars, capThreadVars, epoch, nbuf, histVars,
                  detailVars >>

\* The rest of one iteration, from the return of transcribe to the top of
\* the loop.
TranscriptionLoopHandle(i) ==
  /\ wpc[i] = "infer"
  /\ \E transcribe \in TranscribeOutcomes, translate \in TranslateOutcomes,
        deliver \in DeliverOutcomes :
       LET h == HandleResult(translator, transcribe, translate, deliver) IN
         /\ handled' = Append(handled, [id |-> wseg[i].id] @@ h)
         /\ events' = IF h.on_subtitle = "not_called" THEN events
                      ELSE Append(events, wseg[i].id)
         /\ wpc' = [wpc EXCEPT ![i] = IF h.alive THEN "top" ELSE "dead"]
  /\ wseg' = [wseg EXCEPT ![i] = NoSeg]
  /\ UNCHANGED << ctl, lastOp, pipeVars, buffer, capVars, capThreadVars,
                  epoch, nbuf, nseg, calls, translator, vad, vad_trace,
                  vad_call, accumulator, start_calls, delivered >>

\* A running pipeline: start() has returned, the worker is at the top of
\* its loop, no segment has arrived yet.
WorkerInit ==
  /\ ctl = "idle"
  /\ lastOp = "start"
  /\ running = TRUE
  /\ transcription_queue = << >>
  /\ transcription_thread = 1
  /\ wpc = [i \in Threads |-> IF i = 1 THEN "top" ELSE "none"]
  /\ wseg = [i \in Threads |-> NoSeg]
  /\ buffer = NoAudio
  /\ is_running = FALSE
  /\ callback = FALSE
  /\ pyaudio = FALSE
  /\ stream = NoDevice
  /\ capture_thread = 0
  /\ audio_queue = << >>
  /\ cpc = [i \in Threads |-> "none"]
  /\ cargs = [i \in Threads |-> NoDevice]
  /\ cchunk = [i \in Threads |-> NoAudio]
  /\ epoch = 1
  /\ nbuf = 0
  /\ nseg = 0
  /\ calls = << >>
  /\ events = << >>
  /\ \E enable_translation, available, created \in BOOLEAN :
       translator = TranslatorConfigured(enable_translation, available, created)
  /\ handled = << >>
  /\ vad = VadFresh
  /\ vad_trace = << >>
  /\ vad_call = NoCall
  /\ accumulator = NewAccumulator(DefaultArgs)
  /\ start_calls = NoStartCalls
  /\ delivered = << >>

WorkerNext ==
  \/ OnAudioSegment
  \/ TranscriptionLoopTop(1)
  \/ TranscriptionLoopGet(1)
  \/ TranscriptionLoopCheck(1)
  \/ TranscriptionLoopHandle(1)

WorkerSpec == WorkerInit /\ [][WorkerNext]_vars

\* The calls of the engine whose handling is over.
HandledIds == [k \in 1..Len(handled) |-> handled[k].id]
CallsHandled ==
  IF wpc[1] = "infer" THEN SubSeq(calls, 1, Len(calls) - 1) ELSE calls

\* C11: when transcribe or on_subtitle raises for a segment, the worker
\* catches it: a transcribe that raised leaves no event and no call of
\* on_subtitle, an on_subtitle that raised got the one event of its segment
\* and nothing more, the worker is still in its loop, and every call of the
\* engine, those after a failure included, is handled once and in order.
C11_FailureIsolated ==
  /\ wpc[1] \in {"top", "get", "have", "infer"}
  /\ HandledIds = CallsHandled
  /\ \A k \in 1..Len(handled) :
       /\ handled[k].alive
       /\ handled[k].transcribe = "raise" =>
            handled[k].event = NoEvent /\ handled[k].on_subtitle = "not_called"
       /\ handled[k].on_subtitle = "raised" => handled[k].transcribe = "text"
  /\ Len(events) =
       Cardinality({k \in 1..Len(handled) : handled[k].on_subtitle # "not_called"})

\* A transcribe that raised, an on_subtitle that raised, and after both a
\* segment that got its event.
C11_Witness ==
  /\ Len(handled) = 3
  /\ handled[1].transcribe = "raise"
  /\ handled[2].on_subtitle = "raised"
  /\ handled[3].on_subtitle = "returned"
  /\ wpc[1] = "get"

\* The event of a segment without translation.
Untranslated == [translated_text |-> "null", target_language |-> "null"]

\* C12: when translate raises for a segment whose text is not blank, the
\* event of the segment is still handed to on_subtitle, with translated_text
\* and target_language both null.
C12_TranslateFailureKeepsEvent ==
  \A k \in 1..Len(handled) :
    handled[k].translate = "raise" =>
      /\ handled[k].on_subtitle # "not_called"
      /\ handled[k].event = Untranslated

C12_Witness ==
  /\ translator
  /\ \E k \in 1..Len(handled) :
       handled[k].translate = "raise" /\ handled[k].on_subtitle = "returned"

\* C13: with no translator configured every segment transcribed to a text
\* that is not blank still gets its event, untranslated; and in every event
\* target_language is set exactly when translated_text is a non-empty
\* string.
C13_EventWithoutTranslator ==
  /\ ~translator =>
       \A k \in 1..Len(handled) :
         handled[k].transcribe = "text" =>
           /\ handled[k].on_subtitle # "not_called"
           /\ handled[k].event = Untranslated
  /\ \A k \in 1..Len(handled) :
       handled[k].event # NoEvent =>
         (handled[k].event.target_language = "set"
            <=> handled[k].event.translated_text = "text")

C13_Witness ==
  /\ ~translator
  /\ \E k \in 1..Len(handled) :
       handled[k].transcribe = "text" /\ handled[k].on_subtitle = "returned"

(***************************************************************************)
(* Failed starts, the hardware callback, ownership of the accumulator,     *)
(* AudioCapture.stop(): properties of Spec.                                *)
(***************************************************************************)

\* The last start() ended with the exception of AudioCapture.start().
FailedStart == ctl = "idle" /\ lastOp = "start_failed"

\* C14: when the capture start fails inside start(), the pipeline is left
\* not running: the running flag is false and no worker thread is alive.
C14_FailedStartAborts ==
  FailedStart => ~running /\ AliveWorkers = {}

\* C15: a failure of the device lookup or of the stream open in
\* AudioCapture.start() reaches the caller with no processing thread
\* started and no stream open, and while the pipeline stays in that state no
\* chunk is handed to onChunk.
C15_FailedStartStartsNoThread ==
  /\ [](FailedStart =>
          /\ cpc[epoch] = "none"
          /\ capture_thread = 0
          /\ stream = NoDevice
          /\ audio_queue = << >>)
  /\ [][FailedStart => \A j \in Threads : cpc'[j] = "cb" => cpc[j] = "cb"]_vars

\* The second start() failed while a thread of the first run is still alive.
C15_Witness == FailedStart /\ epoch = 2 /\ AliveCaptureThreads # {}

\* C16: a step of the hardware callback appends its buffer to the raw queue
\* and changes nothing else; audio joins the accumulator, and a segment is
\* emitted, only in a step of a capture-processing thread that is inside
\* onChunk.
C16_CallbackOnlyEnqueues ==
  /\ [][nbuf' # nbuf =>
          /\ Len(audio_queue') = Len(audio_queue) + 1
          /\ SubSeq(audio_queue', 1, Len(audio_queue)) = audio_queue
          /\ \E k \in BufferRuns :
               audio_queue'[Len(audio_queue')].n =
                 k * calculate_chunk_size(stream.rate) * stream.channels
          /\ UNCHANGED << ctl, lastOp, pipeVars, workerVars, buffer,
                          is_running, callback, pyaudio, stream,
                          capture_thread, capThreadVars, epoch, nseg,
                          histVars >>]_vars
  /\ [][(buffer'.len > buffer.len \/ nseg' # nseg) =>
          \E j \in Threads : cpc[j] = "cb" /\ cpc'[j] = "top"]_vars

\* A buffer was put on the raw queue while a thread is inside onChunk.
C16_Witness ==
  /\ Len(audio_queue) = 1
  /\ nbuf = 2
  /\ \E j \in Threads : cpc[j] = "cb"

\* The capture-processing threads inside onChunk, that is inside add_audio.
InAddAudio == { j \in Threads : cpc[j] = "cb" }

\* C17: the accumulator has one owner: at most one capture-processing
\* thread is inside add_audio, and reset() (the step that ends
\* AudioCapture.stop() and resets the accumulator) is not taken while a
\* thread is inside add_audio.
C17_AccumulatorSingleOwner ==
  /\ [](Cardinality(InAddAudio) <= 1)
  /\ [][(ctl = "stop_capture_join" /\ ctl' = "stop_worker_join") =>
          InAddAudio = {}]_vars

\* AudioCapture.stop() has returned and no AudioCapture.start() was called
\* since.
CaptureStopped == ctl \in {"stop_worker_join", "stop_drain"} \/ Stopped

\* C18: once AudioCapture.stop() has returned the running flag is false,
\* stream, device handle and thread reference are null and the raw queue is
\* empty; a stop() that follows a stop() leaves all of them as they are.
C18_CaptureStopIdempotent ==
  /\ [](CaptureStopped =>
          /\ ~is_running
          /\ stream = NoDevice
          /\ ~pyaudio
          /\ capture_thread = 0
          /\ audio_queue = << >>)
  /\ [][(lastOp = "stop" /\ (InStop \/ InStop')) => UNCHANGED capVars]_vars

\* The AudioCapture.stop() of a second stop() in a row has returned, after a
\* run in which audio was captured.
C18_Witness == ctl = "stop_worker_join" /\ lastOp = "stop" /\ nbuf > 0

(***************************************************************************)
(* VoiceActivityDetector (audio/vad.py).                                   *)
(*                                                                         *)
(* VadSpec drives one detector with is_speech(audio) and reset() calls.    *)
(* Audio is its number of samples; the classifier is a black box whose     *)
(* answer for each 512-sample window is any of Probs (in percent).  The    *)
(* residual buffer is kept as its length.  vad_trace records, for every    *)
(* window evaluated since construction or the last reset(), the            *)
(* probability, and the state and the counters after the window.           *)
(***************************************************************************)
MaxWindows == 6

CHUNK_SIZE == 512
threshold == 40
min_speech_duration_ms == 150
min_silence_duration_ms == 300

\* (self.CHUNK_SIZE / self.SAMPLE_RATE) * 1000, which is 32.0 exactly
chunk_duration_ms == (CHUNK_SIZE * 1000) \div SAMPLE_RATE

\* The sizes of the chunks passed to is_speech, in samples.
ChunkSizes == {0, 256, 512, 1600}

\* The answers of the classifier, in percent: below, at and above the
\* threshold.
Probs == {10, 40, 90}

\* A loop test that leaves a full window in the buffer.
HasWindow_Strict(len) == len > CHUNK_SIZE

\* while len(self._buffer) >= self.CHUNK_SIZE
HasWindow(len) == len >= CHUNK_SIZE

\* A window that tests the speech counter before it adds to it.
VadWindow_TestsBeforeAdd(v, prob) ==
  IF prob >= threshold
  THEN [is_speech |-> IF v.speech_ms >= min_speech_duration_ms
                      THEN TRUE ELSE v.is_speech,
        speech_ms |-> v.speech_ms + chunk_duration_ms,
        silence_ms |-> 0,
        buffer |-> v.buffer - CHUNK_SIZE,
        model_state |-> v.model_state + 1]
  ELSE LET silence == v.silence_ms + chunk_duration_ms IN
       IF silence >= min_silence_duration_ms
       THEN [is_speech |-> FALSE, speech_ms |-> 0, silence_ms |-> silence,
             buffer |-> v.buffer - CHUNK_SIZE,
             model_state |-> v.model_state + 1]
       ELSE [is_speech |-> v.is_speech, speech_ms |-> v.speech_ms,
             silence_ms |-> silence, buffer |-> v.buffer - CHUNK_SIZE,
             model_state |-> v.model_state + 1]

\* A window that tests the silence counter before it adds to it.
VadWindow_SilenceTestsBeforeAdd(v, prob) ==
  IF prob >= threshold
  THEN LET speech == v.speech_ms + chunk_duration_ms IN
       [is_speech |-> IF speech >= min_speech_duration_ms
                      THEN TRUE ELSE v.is_speech,
        speech_ms |-> speech,
        silence_ms |-> 0,
        buffer |-> v.buffer - CHUNK_SIZE,
        model_state |-> v.model_state + 1]
  ELSE LET silence == v.silence_ms + chunk_duration_ms IN
       IF v.silence_ms >= min_silence_duration_ms
       THEN [is_speech |-> FALSE, speech_ms |-> 0, silence_ms |-> silence,
             buffer |-> v.buffer - CHUNK_SIZE,
             model_state |-> v.model_state + 1]
       ELSE [is_speech |-> v.is_speech, speech_ms |-> v.speech_ms,
             silence_ms |-> silence, buffer |-> v.buffer - CHUNK_SIZE,
             model_state |-> v.model_state + 1]

\* A window that says SPEECH as soon as one window is above the threshold.
VadWindow_NoHysteresis(v, prob) ==
  IF prob >= threshold
  THEN [is_speech |-> TRUE,
        speech_ms |-> v.speech_ms + chunk_duration_ms,
        silence_ms |-> 0,
        buffer |-> v.buffer - CHUNK_SIZE,
        model_state |-> v.model_state + 1]
  ELSE LET silence == v.silence_ms + chunk_duration_ms IN
       IF silence >= min_silence_duration_ms
       THEN [is_speech |-> FALSE, speech_ms |-> 0, silence_ms |-> silence,
             buffer |-> v.buffer - CHUNK_SIZE,
             model_state |-> v.model_state + 1]
       ELSE [is_speech |-> v.is_speech, speech_ms |-> v.speech_ms,
             silence_ms |-> silence, buffer |-> v.buffer - CHUNK_SIZE,
             model_state |-> v.model_state + 1]

\* A window that leaves speech_ms alone when the silence is long enough.
VadWindow_KeepsSpeechCount(v, prob) ==
  IF prob >= threshold
  THEN LET speech == v.speech_ms + chunk_duration_ms IN
       [is_speech |-> IF speech >= min_speech_duration_ms
                      THEN TRUE ELSE v.is_speech,
        speech_ms |-> speech,
        silence_ms |-> 0,
        buffer |-> v.buffer - CHUNK_SIZE,
        model_state |-> v.model_state + 1]
  ELSE LET silence == v.silence_ms + chunk_duration_ms IN
       IF silence >= min_silence_duration_ms
       THEN [is_speech |-> FALSE, speech_ms |-> v.speech_ms, silence_ms |-> silence,
             buffer |-> v.buffer - CHUNK_SIZE,
             model_state |-> v.model_state + 1]
       ELSE [is_speech |-> v.is_speech, speech_ms |-> v.speech_ms,
             silence_ms |-> silence, buffer |-> v.buffer - CHUNK_SIZE,
             model_state |-> v.model_state + 1]

\* A window below the threshold that always resets speech_ms.
VadWindow_SilenceResetsSpeech(v, prob) ==
  IF prob >= threshold
  THEN LET speech == v.speech_ms + chunk_duration_ms IN
       [is_speech |-> IF speech >= min_speech_duration_ms
                      THEN TRUE ELSE v.is_speech,
        speech_ms |-> speech,
        silence_ms |-> 0,
        buffer |-> v.buffer - CHUNK_SIZE,
        model_state |-> v.model_state + 1]
  ELSE LET silence == v.silence_ms + chunk_duration_ms IN
       IF silence >= min_silence_duration_ms
       THEN [is_speech |-> FALSE, speech_ms |-> 0, silence_ms |-> silence,
             buffer |-> v.buffer - CHUNK_SIZE,
             model_state |-> v.model_state + 1]
       ELSE [is_speech |-> v.is_speech, speech_ms |-> 0,
             silence_ms |-> silence, buffer |-> v.buffer - CHUNK_SIZE,
             model_state |-> v.model_state + 1]

\* A window at or above the threshold that leaves silence_ms alone.
VadWindow_KeepsSilenceCount(v, prob) ==
  IF prob >= threshold
  THEN LET speech == v.speech_ms + chunk_duration_ms IN
       [is_speech |-> IF speech >= min_speech_duration_ms
                      THEN TRUE ELSE v.is_speech,
        speech_ms |-> speech,
        silence_ms |-> v.silence_ms,
        buffer |-> v.buffer - CHUNK_SIZE,
        model_state |-> v.model_state + 1]
  ELSE LET silence == v.silence_ms + chunk_duration_ms IN
       IF silence >= min_silence_duration_ms
       THEN [is_speech |-> FALSE, speech_ms |-> 0, silence_ms |-> silence,
             buffer |-> v.buffer - CHUNK_SIZE,
             model_state |-> v.model_state + 1]
       ELSE [is_speech |-> v.is_speech, speech_ms |-> v.speech_ms,
             silence_ms |-> silence, buffer |-> v.buffer - CHUNK_SIZE,
             model_state |-> v.model_state + 1]

\* One iteration of the loop of is_speech: the window leaves the buffer and
\* its probability moves the counters and, at a threshold, the state.
VadWindow(v, prob) ==
  IF prob >= threshold
  THEN LET speech == v.speech_ms + chunk_duration_ms IN
       [is_speech |-> IF speech >= min_speech_duration_ms
                      THEN TRUE ELSE v.is_speech,
        speech_ms |-> speech,
        silence_ms |-> 0,
        buffer |-> v.buffer - CHUNK_SIZE,
        model_state |-> v.model_state + 1]
  ELSE LET silence == v.silence_ms + chunk_duration_ms IN
       IF silence >= min_silence_duration_ms
       THEN [is_speech |-> FALSE, speech_ms |-> 0, silence_ms |-> silence,
             buffer |-> v.buffer - CHUNK_SIZE,
             model_state |-> v.model_state + 1]
       ELSE [is_speech |-> v.is_speech, speech_ms |-> v.speech_ms,
             silence_ms |-> silence, buffer |-> v.buffer - CHUNK_SIZE,
             model_state |-> v.model_state + 1]

\* The loop of is_speech on detector v, the classifier answering probs in
\* turn; the windows evaluated are appended to trace.
RECURSIVE VadLoop(_, _, _)
VadLoop(v, probs, trace) ==
  IF HasWindow(v.buffer) /\ probs # << >>
  THEN LET w == VadWindow(v, Head(probs)) IN
       VadLoop(w, Tail(probs),
               Append(trace, [prob |-> Head(probs), is_speech |-> w.is_speech,
                              speech_ms |-> w.speech_ms,
                              silence_ms |-> w.silence_ms]))
  ELSE [vad |-> v, trace |-> trace]

\* An is_speech that starts from the chunk alone: the residual of the
\* call before is lost.
IsSpeechOf_DropsResidual(sizes, answers, maxWindows) ==
  \E n \in sizes :
    LET windows == n \div CHUNK_SIZE IN
      /\ Len(vad_trace) + windows <= maxWindows
      /\ \E probs \in [1..windows -> answers] :
           LET r == VadLoop([vad EXCEPT !.buffer = n], probs, vad_trace)
           IN /\ vad' = r.vad
              /\ vad_trace' = r.trace
              /\ vad_call' = [op |-> "is_speech", value |-> r.vad.is_speech,
                               from |-> VadFresh,
                               total |-> vad_call.total + n]
      /\ UNCHANGED << ctl, lastOp, pipeVars, workerVars, buffer, capVars,
                      capThreadVars, epoch, nbuf, nseg, histVars, translator,
                      handled, accumulator, start_calls, delivered >>

\* is_speech(audio): the chunk joins the residual buffer, then every full
\* window is evaluated.  The chunk has one of the given sizes, the
\* classifier gives one of the given answers, and at most maxWindows
\* windows are evaluated between two resets.
IsSpeechOf(sizes, answers, maxWindows) ==
  \E n \in sizes :
    LET windows == (vad.buffer + n) \div CHUNK_SIZE IN
      /\ Len(vad_trace) + windows <= maxWindows
      /\ \E probs \in [1..windows -> answers] :
           LET r == VadLoop([vad EXCEPT !.buffer = vad.buffer + n], probs,
                            vad_trace)
           IN /\ vad' = r.vad
              /\ vad_trace' = r.trace
              \* return self._is_speech
              /\ vad_call' = [op |-> "is_speech", value |-> r.vad.is_speech,
                               from |-> VadFresh,
                               total |-> vad_call.total + n]
      /\ UNCHANGED << ctl, lastOp, pipeVars, workerVars, buffer, capVars,
                      capThreadVars, epoch, nbuf, nseg, histVars, translator,
                      handled, accumulator, start_calls, delivered >>

IsSpeech == IsSpeechOf(ChunkSizes, Probs, MaxWindows)

\* A reset() that leaves the residual buffer as it is.
reset_KeepsBuffer(v) ==
  [v EXCEPT !.is_speech = FALSE, !.speech_ms = 0, !.silence_ms = 0,
            !.model_state = 0]

\* reset(): the four assignments and self._model.reset_states().
reset(v) ==
  [v EXCEPT !.is_speech = FALSE, !.speech_ms = 0, !.silence_ms = 0,
            !.buffer = 0, !.model_state = 0]

\* reset()
VadReset ==
  /\ vad' = reset(vad)
  /\ vad_trace' = << >>
  /\ vad_call' = [op |-> "reset", value |-> FALSE, from |-> vad, total |-> 0]
  /\ UNCHANGED << ctl, lastOp, pipeVars, workerVars, buffer, capVars,
                  capThreadVars, epoch, nbuf, nseg, histVars, translator,
                  handled, accumulator, start_calls, delivered >>

VadNext ==
  \/ IsSpeech
  \/ VadReset

VadSpec == Init /\ [][VadNext]_vars

\* C19: whatever chunks were passed to is_speech, with reset() calls in
\* between, the residual buffer holds fewer than 512 samples after each
\* call.
C19_ResidualBelowWindow == vad.buffer < 512

\* A call that left a residual after evaluating windows, following a call
\* that left another.
C19_Witness == vad.buffer = 320 /\ Len(vad_trace) = 4

\* The first n windows since the reset all had probability 0.9.
AllSpeech(n) == \A k \in 1..n : vad_trace[k].prob = 90

\* C20: from a fresh detector, windows of probability 0.9 leave the state
\* SILENCE after the first four and make it SPEECH at the fifth; fewer than
\* five of them followed by a window below the threshold leave it SILENCE.
C20_SpeechAtFifthWindow ==
  \A n \in 1..Len(vad_trace) :
    /\ AllSpeech(n) => (vad_trace[n].is_speech <=> n >= 5)
    /\ (n <= 5 /\ AllSpeech(n - 1) /\ vad_trace[n].prob < threshold) =>
         ~vad_trace[n].is_speech

C20_Witness ==
  /\ Len(vad_trace) = 5
  /\ AllSpeech(5)
  /\ vad.is_speech
  /\ ~vad_trace[4].is_speech

(***************************************************************************)
(* The hysteresis over long runs of windows.                               *)
(*                                                                         *)
(* VadRunSpec is VadSpec with up to MaxRunWindows windows between two      *)
(* resets, the classifier answering 0.1 or 0.9, and chunks of one or two   *)
(* windows.                                                                *)
(***************************************************************************)
MaxRunWindows == 16

RunChunkSizes == {512, 1024}
RunProbs == {10, 90}

IsSpeechRun == IsSpeechOf(RunChunkSizes, RunProbs, MaxRunWindows)

VadRunNext ==
  \/ IsSpeechRun
  \/ VadReset

VadRunSpec == Init /\ [][VadRunNext]_vars

\* Window e was at or above the threshold.
Above(e) == vad_trace[e].prob >= threshold

\* State and counters before window e: those after window e - 1, or those
\* of the fresh detector.
Before(e) ==
  IF e = 1 THEN [is_speech |-> FALSE, speech_ms |-> 0, silence_ms |-> 0]
  ELSE vad_trace[e - 1]

\* The number of consecutive windows below the threshold that end with
\* window e, and the same for the windows at or above it.
LowRun(e) == Cardinality({ k \in 1..e : \A m \in k..e : ~Above(m) })
HighRun(e) == Cardinality({ k \in 1..e : \A m \in k..e : Above(m) })

\* C21: a run of windows at 0.1 that starts in state SPEECH, right after a
\* window at or above the threshold, leaves the state SPEECH after each of
\* its first nine windows and makes it SILENCE at the tenth.
C21_SilenceAtTenthWindow ==
  \A e \in 1..Len(vad_trace) :
    (LowRun(e) \in 1..10 /\ Before(e - LowRun(e) + 1).is_speech) =>
      (vad_trace[e].is_speech <=> LowRun(e) < 10)

C21_Witness ==
  /\ Len(vad_trace) = 15
  /\ HighRun(5) = 5
  /\ LowRun(15) = 10
  /\ vad_trace[14].is_speech
  /\ ~vad.is_speech

\* The last window up to e at which a run of windows below the threshold
\* was at least min_silence_duration_ms long (0 when there is none): the
\* detector sets speech_ms to 0 there and, as when fresh, counts from 0.
LastLongSilence(e) ==
  LET long == { m \in 1..e :
                  LowRun(m) * chunk_duration_ms >= min_silence_duration_ms }
  IN IF long = {} THEN 0 ELSE CHOOSE m \in long : \A o \in long : o <= m

\* The windows at or above the threshold since then, up to e.
HighSince(e) ==
  Cardinality({ m \in (LastLongSilence(e) + 1)..e : Above(m) })

\* The state went from SILENCE to SPEECH at window e.
ToSpeech(e) == ~Before(e).is_speech /\ vad_trace[e].is_speech

\* C22, as claimed: the state goes from SILENCE to SPEECH only at a window
\* that ends a run of consecutive windows at or above the threshold, none
\* below it inside, of at least min_speech_duration_ms.
C22_SpeechOnlyUninterrupted ==
  \A e \in 1..Len(vad_trace) :
    ToSpeech(e) => HighRun(e) * chunk_duration_ms >= min_speech_duration_ms

\* C22, amended: the state goes from SILENCE to SPEECH only at a window at
\* or above the threshold, when the windows at or above the threshold since
\* the last silence of min_silence_duration_ms (or since the reset) add up
\* to min_speech_duration_ms; shorter silences in between do not restart
\* the count.
C22_SpeechOnlyAccumulated ==
  \A e \in 1..Len(vad_trace) :
    ToSpeech(e) =>
      /\ Above(e)
      /\ HighSince(e) * chunk_duration_ms >= min_speech_duration_ms
      /\ (HighSince(e) - 1) * chunk_duration_ms < min_speech_duration_ms

\* Four windows of speech, one of silence, and the state goes to SPEECH at
\* the next window of speech.
C22_Witness ==
  /\ Len(vad_trace) = 6
  /\ HighRun(4) = 4
  /\ ~Above(5)
  /\ ToSpeech(6)

\* C23: a window at or above the threshold adds one window to speech_ms and
\* sets silence_ms to 0; a window below it adds one window to silence_ms
\* and leaves speech_ms as it was, unless silence_ms thereby reaches
\* min_silence_duration_ms: then speech_ms is 0.
C23_CounterAsymmetry ==
  \A e \in 1..Len(vad_trace) :
    IF Above(e)
    THEN /\ vad_trace[e].speech_ms = Before(e).speech_ms + chunk_duration_ms
         /\ vad_trace[e].silence_ms = 0
    ELSE /\ vad_trace[e].silence_ms = Before(e).silence_ms + chunk_duration_ms
         /\ vad_trace[e].speech_ms =
              IF vad_trace[e].silence_ms >= min_silence_duration_ms
              THEN 0 ELSE Before(e).speech_ms

\* Two windows of speech kept through nine of silence, and zeroed by the
\* tenth.
C23_Witness ==
  /\ Len(vad_trace) = 12
  /\ HighRun(2) = 2
  /\ LowRun(12) = 10
  /\ vad_trace[11].speech_ms = 2 * chunk_duration_ms
  /\ vad_trace[12].speech_ms = 0

\* The state went from SPEECH to SILENCE at window e.
ToSilence(e) == Before(e).is_speech /\ ~vad_trace[e].is_speech

\* C24: the state goes from SPEECH to SILENCE only at a window that ends a
\* run of consecutive windows below the threshold of at least
\* min_silence_duration_ms, and speech_ms is 0 after that window.
C24_SilenceOnlyUninterrupted ==
  \A e \in 1..Len(vad_trace) :
    ToSilence(e) =>
      /\ LowRun(e) * chunk_duration_ms >= min_silence_duration_ms
      /\ vad_trace[e].speech_ms = 0

\* SPEECH at the sixth window, and SILENCE at the end of the ten that
\* follow.
C24_Witness ==
  /\ Len(vad_trace) = 16
  /\ HighRun(6) = 6
  /\ ToSilence(16)

\* The detector after the first k windows of vad_trace, had they been given
\* to a freshly constructed detector (the residual buffer left aside).
RECURSIVE FromFresh(_)
FromFresh(k) ==
  IF k = 0 THEN VadFresh
  ELSE [VadWindow(FromFresh(k - 1), vad_trace[k].prob) EXCEPT !.buffer = 0]

\* C25: reset() leaves the detector as __init__ does: SILENCE, both
\* counters 0, no residual, the classifier reset; and after whatever was
\* fed since the last reset the detector is in the state, and has returned
\* the value, that a freshly constructed one would after the same windows.
C25_ResetIsFresh ==
  /\ vad_call.op = "reset" => vad = VadFresh
  /\ [FromFresh(Len(vad_trace)) EXCEPT !.buffer = vad.buffer] = vad
  /\ vad_call.op = "is_speech" => vad_call.value = vad.is_speech
  /\ \A k \in 1..Len(vad_trace) :
       vad_trace[k].is_speech = FromFresh(k).is_speech

\* A reset() that found the detector in SPEECH, with some silence counted
\* and a residual in the buffer.
C25_Witness ==
  /\ vad_call.op = "reset"
  /\ vad_call.from.is_speech
  /\ vad_call.from.silence_ms > 0
  /\ vad_call.from.buffer > 0

(***************************************************************************)
(* The capture path on other devices and buffers.                          *)
(*                                                                         *)
(* CaptureLoopSpec is a running pipeline (start() has returned) on a       *)
(* device of any of CaptureDevices, with hardware buffers of any of        *)
(* FrameCounts frames, the device's own chunk size among them, and with    *)
(* segments of any of SegmentLens handed to the worker.                    *)
(***************************************************************************)
CaptureDevices ==
  { [rate |-> 16000, channels |-> 1], [rate |-> 44100, channels |-> 2],
    [rate |-> 48000, channels |-> 2] }

\* The frames of a hardware buffer on a device of the given rate: too few
\* for one sample at 16 kHz (none on a 16 kHz device, one on the others),
\* 3003, and the device's chunk size.
FrameCounts(rate) ==
  {IF rate = SAMPLE_RATE THEN 0 ELSE 1, 3003, calculate_chunk_size(rate)}

\* _audio_callback with a buffer of any of FrameCounts frames.
AudioCallbackFrames ==
  /\ stream # NoDevice
  /\ nbuf < MaxBuffers
  /\ \E frames \in FrameCounts(stream.rate) :
       audio_queue' = Append(audio_queue,
           [n |-> frames * stream.channels, ep |-> epoch, st |-> Stopped])
  /\ nbuf' = nbuf + 1
  /\ UNCHANGED << ctl, lastOp, pipeVars, workerVars, buffer, is_running,
                  callback, pyaudio, stream, capture_thread, capThreadVars,
                  epoch, nseg, histVars >>
  /\ UNCHANGED detailVars

\* start() has returned: the worker and the processing thread are at the
\* top of their loops, the stream is open on the device.
CaptureLoopInit ==
  /\ ctl = "idle"
  /\ lastOp = "start"
  /\ running = TRUE
  /\ transcription_queue = << >>
  /\ transcription_thread = 1
  /\ wpc = [i \in Threads |-> IF i = 1 THEN "top" ELSE "none"]
  /\ wseg = [i \in Threads |-> NoSeg]
  /\ buffer = NoAudio
  /\ is_running = TRUE
  /\ callback = TRUE
  /\ pyaudio = TRUE
  /\ \E dev \in CaptureDevices :
       /\ stream = dev
       /\ cargs = [i \in Threads |-> IF i = 1 THEN dev ELSE NoDevice]
  /\ capture_thread = 1
  /\ audio_queue = << >>
  /\ cpc = [i \in Threads |-> IF i = 1 THEN "top" ELSE "none"]
  /\ cchunk = [i \in Threads |-> NoAudio]
  /\ epoch = 1
  /\ nbuf = 0
  /\ nseg = 0
  /\ calls = << >>
  /\ events = << >>
  /\ translator = FALSE
  /\ handled = << >>
  /\ vad = VadFresh
  /\ vad_trace = << >>
  /\ vad_call = NoCall
  /\ accumulator = NewAccumulator(DefaultArgs)
  /\ start_calls = NoStartCalls
  /\ delivered = << >>

CaptureLoopNext ==
  \/ AudioCallbackFrames
  \/ CaptureThread(1)
  \/ OnAudioSegment
  \/ Worker(1)

CaptureLoopSpec == CaptureLoopInit /\ [][CaptureLoopNext]_vars

\* round(len / rate * 16000), halves up.
RoundedLength(len, rate) == (2 * len * SAMPLE_RATE + rate) \div (2 * rate)

\* Processing thread j takes a buffer off the raw queue in this step.
TakesBuffer(j) ==
  cpc[j] = "get" /\ cpc'[j] # "get" /\ audio_queue # << >>

\* The length of the chunk the step of thread j hands to onChunk; 0 when it
\* hands none.
Forwarded(j) == IF cpc'[j] = "cb" THEN cchunk'[j].len ELSE 0

\* C26: the chunk made of a buffer has as many samples as the buffer has
\* frames when the device runs at 16 kHz, and otherwise at most one sample
\* more or less than round(frames / rate * 16000).
C26_ResampleLength ==
  [][\A j \in Threads :
       TakesBuffer(j) =>
         LET frames == to_mono(Head(audio_queue).n, cargs[j].channels)
             rate == cargs[j].rate
             d == Forwarded(j) - RoundedLength(frames, rate)
         IN IF rate = SAMPLE_RATE THEN Forwarded(j) = frames
            ELSE d \in {-1, 0, 1}]_vars

\* A chunk of 1000 samples made of 3003 frames at 48 kHz.
C26_Witness ==
  /\ cpc[1] = "cb"
  /\ cargs[1].rate = 48000
  /\ cchunk[1].len = 1000

\* C27: a thread inside onChunk holds a chunk that is not empty, and the
\* segment the engine is called on is not empty.
C27_NoEmptyAudioForwarded ==
  /\ \A j \in Threads : cpc[j] = "cb" => cchunk[j].len > 0
  /\ \A i \in Threads : wpc[i] = "infer" => wseg[i].len > 0

\* The processing thread is about to take a buffer that resamples to no
\* sample at all, and the worker holds an empty segment.
C27_Witness ==
  /\ cpc[1] = "get"
  /\ audio_queue # << >>
  /\ Head(audio_queue).n > 0
  /\ resample(to_mono(Head(audio_queue).n, cargs[1].channels), cargs[1].rate) = 0
  /\ wpc[1] = "have"
  /\ wseg[1].len = 0

(***************************************************************************)
(* The segment accumulators: StreamingAudioBuffer and SimpleAudioBuffer    *)
(*                                                                         *)
(* RealtimePipeline.__init__ builds one of the two from its arguments.     *)
(* Their add_audio and reset follow the description of the accumulators:   *)
(* the VAD-driven one appends while the detector says SPEECH, flushes at   *)
(* max_segment_duration, and on the change to SILENCE appends the pad and  *)
(* flushes or drops; the fixed one flushes every segment_duration.         *)
(* The detector's answer for a chunk is any of the two.                    *)
(***************************************************************************)
MaxChunks == 4        \* add_audio calls over the whole run

\* The arguments the pipeline is constructed with, in ms.
PipelineArgs ==
  [use_vad : BOOLEAN, vad_silence_ms : {100, 300},
   min_segment_duration : {300, 1000}, max_segment_duration : {1000, 1500}]

\* The chunks handed to add_audio, in samples: 0.1 s, 0.3 s, 0.5 s, 2.5 s.
AccumulatorChunks == {1600, 4800, 8000, 40000}

\* A duration in ms as samples at 16 kHz.
Samples(ms) == (ms * SAMPLE_RATE) \div 1000

Min(a, b) == IF a < b THEN a ELSE b

\* on_segment_ready(segment), recorded with what made the accumulator flush.
Emit(a, len, cause) == Append(a.emitted, [len |-> len, cause |-> cause])

\* StreamingAudioBuffer.add_audio for a chunk the detector answers for.
StreamingAddAudio(a, len, speech) ==
  LET b == a.buffer
      fed == [a EXCEPT !.total = @ + len, !.added = @ + 1, !.last = len,
                       !.speaking = speech]
  IN IF speech
     THEN LET dur == a.samples + len IN
          IF dur >= Samples(b.max_segment_duration)
          THEN [fed EXCEPT !.samples = 0, !.emitted = Emit(a, dur, "max")]
          ELSE [fed EXCEPT !.samples = dur]
     ELSE IF a.speaking
          THEN LET dur == a.samples + Min(len, Samples(b.speech_pad_ms)) IN
               IF dur >= Samples(b.min_segment_duration)
               THEN [fed EXCEPT !.samples = 0,
                                !.emitted = Emit(a, dur, "silence")]
               ELSE [fed EXCEPT !.samples = 0,
                                !.dropped = Append(a.dropped, dur)]
          ELSE fed

\* The segments a fixed accumulator holding `samples` flushes, one per
\* segment_duration, and what stays pending.
RECURSIVE SimpleFlush(_, _)
SimpleFlush(a, segment) ==
  IF segment > 0 /\ a.samples >= segment
  THEN SimpleFlush([a EXCEPT !.samples = @ - segment,
                             !.emitted = Emit(a, segment, "full")], segment)
  ELSE a

\* SimpleAudioBuffer.add_audio.
SimpleAddAudio(a, len) ==
  SimpleFlush([a EXCEPT !.samples = @ + len, !.total = @ + len,
                        !.added = @ + 1, !.last = len],
              Samples(a.buffer.segment_duration))

\* RealtimePipeline._on_audio: self._buffer.add_audio(audio).
AccumulatorAddAudio ==
  /\ accumulator.added < MaxChunks
  /\ \E len \in AccumulatorChunks, speech \in BOOLEAN :
       accumulator' = IF accumulator.buffer.use_vad
                      THEN StreamingAddAudio(accumulator, len, speech)
                      ELSE SimpleAddAudio(accumulator, len)
  /\ UNCHANGED << ctl, lastOp, pipeVars, workerVars, buffer, capVars,
                  capThreadVars, epoch, nbuf, nseg, histVars, translator,
                  handled, vad, vad_trace, vad_call, start_calls, delivered >>

\* self._buffer.reset(): nothing pending, the detector in SILENCE; the
\* histories start again.
AccumulatorReset ==
  /\ accumulator.added > 0
  /\ accumulator' = [NewAccumulator(accumulator.args)
                       EXCEPT !.added = accumulator.added]
  /\ UNCHANGED << ctl, lastOp, pipeVars, workerVars, buffer, capVars,
                  capThreadVars, epoch, nbuf, nseg, histVars, translator,
                  handled, vad, vad_trace, vad_call, start_calls, delivered >>

\* The pipeline is constructed with any of PipelineArgs.
AccumulatorInit ==
  /\ ctl = "idle"
  /\ lastOp = "none"
  /\ running = FALSE
  /\ transcription_queue = << >>
  /\ transcription_thread = 0
  /\ wpc = [i \in Threads |-> "none"]
  /\ wseg = [i \in Threads |-> NoSeg]
  /\ buffer = NoAudio
  /\ is_running = FALSE
  /\ callback = FALSE
  /\ pyaudio = FALSE
  /\ stream = NoDevice
  /\ capture_thread = 0
  /\ audio_queue = << >>
  /\ cpc = [i \in Threads |-> "none"]
  /\ cargs = [i \in Threads |-> NoDevice]
  /\ cchunk = [i \in Threads |-> NoAudio]
  /\ epoch = 0
  /\ nbuf = 0
  /\ nseg = 0
  /\ calls = << >>
  /\ events = << >>
  /\ translator = FALSE
  /\ handled = << >>
  /\ vad = VadFresh
  /\ vad_trace = << >>
  /\ vad_call = NoCall
  /\ \E args \in PipelineArgs : accumulator = NewAccumulator(args)
  /\ start_calls = NoStartCalls
  /\ delivered = << >>

AccumulatorNext ==
  \/ AccumulatorAddAudio
  \/ AccumulatorReset

AccumulatorSpec == AccumulatorInit /\ [][AccumulatorNext]_vars

\* add_audio is called in this step.
Adds == accumulator'.added = accumulator.added + 1

\* C28: on the change from SPEECH to SILENCE the pending audio with the pad
\* is dropped, and nothing emitted, when it is shorter than
\* min_segment_duration, and emitted otherwise; the accumulator is empty
\* afterwards; every segment emitted on a change to SILENCE has at least
\* min_segment_duration.
C28_ShortSegmentDropped ==
  /\ [](accumulator.args.use_vad =>
          \A k \in 1..Len(accumulator.emitted) :
            accumulator.emitted[k].cause = "silence" =>
              accumulator.emitted[k].len
                >= Samples(accumulator.args.min_segment_duration))
  /\ [][(accumulator.args.use_vad /\ Adds
           /\ accumulator.speaking /\ ~accumulator'.speaking) =>
        LET dur == accumulator.samples
                     + Min(accumulator'.last,
                           Samples(accumulator.args.vad_silence_ms))
        IN /\ accumulator'.samples = 0
           /\ IF dur < Samples(accumulator.args.min_segment_duration)
              THEN accumulator'.emitted = accumulator.emitted
              ELSE accumulator'.emitted =
                     Emit(accumulator, dur, "silence")]_vars

\* One segment was dropped on a change to SILENCE and a later one emitted.
C28_Witness ==
  /\ accumulator.args.use_vad
  /\ accumulator.dropped # << >>
  /\ \E k \in 1..Len(accumulator.emitted) :
       accumulator.emitted[k].cause = "silence"

\* C29: when the detector says SPEECH and the pending audio with the chunk
\* reaches max_segment_duration, that add_audio emits it all and leaves the
\* accumulator empty; after any add_audio less than max_segment_duration is
\* pending.
C29_LongSegmentForced ==
  /\ [](accumulator.args.use_vad =>
          accumulator.samples
            < Samples(accumulator.args.max_segment_duration))
  /\ [][(accumulator.args.use_vad /\ Adds /\ accumulator'.speaking
           /\ accumulator.samples + accumulator'.last
                >= Samples(accumulator.args.max_segment_duration)) =>
        /\ accumulator'.samples = 0
        /\ accumulator'.emitted =
             Emit(accumulator, accumulator.samples + accumulator'.last,
                  "max")]_vars

\* A segment was forced out by a chunk that found audio pending.
C29_Witness ==
  /\ accumulator.args.use_vad
  /\ \E k \in 1..Len(accumulator.emitted) :
       /\ accumulator.emitted[k].cause = "max"
       /\ accumulator.emitted[k].len > accumulator.last
       /\ k = Len(accumulator.emitted)
  /\ accumulator.samples = 0
  /\ accumulator.speaking

\* C30: a fixed accumulator built for 1.0 s has emitted floor(N / 16000)
\* segments after N samples since the last reset.
C30_FixedEmitsPerSecond ==
  (~accumulator.args.use_vad /\ accumulator.args.min_segment_duration = 1000)
    => Len(accumulator.emitted) = accumulator.total \div 16000

\* Two segments emitted, with part of a third pending.
C30_Witness ==
  /\ ~accumulator.args.use_vad
  /\ accumulator.args.min_segment_duration = 1000
  /\ Len(accumulator.emitted) = 2
  /\ accumulator.samples > 0
  /\ accumulator.added >= 2

(***************************************************************************)
(* Delivery of events: a property of WorkerSpec.                           *)
(***************************************************************************)

\* C31: a segment whose text is blank gets no event and no call of
\* on_subtitle; a segment transcribed to a text that is not blank gets one
\* call of on_subtitle; no segment gets two, every event is for a segment
\* transcribed to such a text, and there are never more events than calls
\* of the engine.
C31_EventOncePerText ==
  /\ \A k \in 1..Len(handled) :
       /\ handled[k].transcribe = "empty" =>
            handled[k].on_subtitle = "not_called" /\ handled[k].event = NoEvent
       /\ handled[k].transcribe = "text" =>
            /\ handled[k].on_subtitle # "not_called"
            /\ Cardinality({e \in 1..Len(events) : events[e] = handled[k].id}) = 1
  /\ \A e \in 1..Len(events) :
       \E k \in 1..Len(handled) :
         handled[k].id = events[e] /\ handled[k].transcribe = "text"
  /\ \A a, b \in 1..Len(events) : a # b => events[a] # events[b]
  /\ Len(events) <= Len(calls)

\* Three calls of the engine: a blank text, then two texts, each with its
\* event.
C31_Witness ==
  /\ Len(handled) = 3
  /\ handled[1].transcribe = "empty"
  /\ handled[2].transcribe = "text"
  /\ handled[3].transcribe = "text"
  /\ Len(events) = 2

(***************************************************************************)
(* Cancellation.                                                           *)
(***************************************************************************)

\* Every thread of the two loops is scheduled, and every call it is inside
\* (onChunk, the transcription engine) returns.  Nothing makes the
\* controller call start() or stop().
FairLoops ==
  /\ Spec
  /\ \A i \in Threads : WF_vars(Worker(i))
  /\ \A j \in Threads : WF_vars(CaptureThread(j))

\* C32: once the pipeline's flag is false every worker loop ends, and once
\* the driver's flag is false every capture-processing loop ends, unless a
\* start() sets the flag again first; the queues may be empty.
C32_LoopsObserveFlag ==
  /\ ~running ~> (running \/ AliveWorkers = {})
  /\ ~is_running ~> (is_running \/ AliveCaptureThreads = {})

\* stop() has just set the flags; both loops are polling empty queues.
C32_Witness ==
  /\ ctl = "stop_capture_join"
  /\ ~running /\ ~is_running
  /\ \E i \in Threads : wpc[i] = "get"
  /\ \E j \in Threads : cpc[j] = "get"
  /\ transcription_queue = << >> /\ audio_queue = << >>

(***************************************************************************)
(* start() on a running pipeline and on a running driver.                  *)
(*                                                                         *)
(* RestartSpec is a running pipeline (start() has returned) on which       *)
(* RealtimePipeline.start() is called again, and on whose driver           *)
(* AudioCapture.start() is called again with another callback, while the   *)
(* hardware, the processing thread and the worker go on.                   *)
(***************************************************************************)
MaxRestarts == 2      \* start() calls of each kind on the running pipeline

\* RealtimePipeline.start() while self._running: the guard returns.
PipelineStartAgain ==
  /\ ctl = "idle"
  /\ running
  /\ start_calls.pipeline < MaxRestarts
  /\ start_calls' = [start_calls EXCEPT !.pipeline = @ + 1]
  /\ UNCHANGED << ctl, lastOp, pipeVars, workerVars, buffer, capVars,
                  capThreadVars, epoch, nbuf, nseg, histVars, translator,
                  handled, vad, vad_trace, vad_call, accumulator, delivered >>

\* AudioCapture.start(callback) with a second callback; the thread it would
\* create is the next one.
CaptureStartAgain ==
  /\ ctl = "idle"
  /\ start_calls.capture < MaxRestarts
  /\ CaptureStart(epoch + 1, "idle")
  /\ start_calls' = [start_calls EXCEPT !.capture = @ + 1,
                                        !.callback = IF is_running THEN @ ELSE 2]
  /\ UNCHANGED << running, transcription_queue, wseg, buffer, cchunk, epoch,
                  nbuf, nseg, histVars, translator, handled, vad, vad_trace,
                  vad_call, accumulator, delivered >>

RestartNext ==
  \/ PipelineStartAgain
  \/ CaptureStartAgain
  \/ AudioCallback
  \/ \E j \in Threads : CaptureThread(j)
  \/ \E i \in Threads : Worker(i)

RestartSpec == CaptureLoopInit /\ [][RestartNext]_vars

\* A start() on a running object is made in this step.
StartsAgain ==
  \/ start_calls'.pipeline # start_calls.pipeline
  \/ start_calls'.capture # start_calls.capture

\* C33: a start() of the running pipeline, and a start() of its running
\* driver, leave the flags, the threads and their positions, the stream,
\* the queues and the driver's callback as they were.
C33_StartIdempotentWhileRunning ==
  [][StartsAgain =>
       /\ UNCHANGED << running, is_running, transcription_thread,
                       capture_thread, wpc, cpc, cargs, stream, pyaudio,
                       callback, audio_queue, transcription_queue, epoch >>
       /\ start_calls'.callback = start_calls.callback]_vars

\* Both kinds of start() were called again while a chunk is inside onChunk
\* and the engine is running.
C33_Witness ==
  /\ start_calls.pipeline >= 1
  /\ start_calls.capture >= 1
  /\ cpc[1] = "cb"
  /\ wpc[1] = "infer"
  /\ AliveCaptureThreads = {1}

(***************************************************************************)
(* The detector's state and its counter: a property of VadRunSpec.         *)
(***************************************************************************)

\* C34: with min_speech_duration_ms above 0, after every window and after
\* every call the state is SPEECH exactly when speech_ms has reached
\* min_speech_duration_ms.
C34_StateMatchesCounter ==
  min_speech_duration_ms > 0 =>
    /\ vad.is_speech <=> vad.speech_ms >= min_speech_duration_ms
    /\ \A k \in 1..Len(vad_trace) :
         vad_trace[k].is_speech
           <=> vad_trace[k].speech_ms >= min_speech_duration_ms

\* The detector went to SPEECH, back to SILENCE, and has counted some
\* speech again, short of the minimum.
C34_Witness ==
  /\ ~vad.is_speech
  /\ vad.speech_ms > 0
  /\ \E a \in 1..Len(vad_trace) : vad_trace[a].is_speech


(***************************************************************************)
(* Chunking: a property of VadSpec.                                        *)
(***************************************************************************)

\* The classifier's answers for the windows evaluated since the last reset.
Answers == [k \in 1..Len(vad_trace) |-> vad_trace[k].prob]

\* The same samples given to a reset detector in one call, the classifier
\* answering the same for the same windows.
OneCall == VadLoop([VadFresh EXCEPT !.buffer = vad_call.total], Answers, << >>)

\* C35: however the samples fed since the last reset were split into calls,
\* the detector is where one call with all of them leaves it: the same
\* state, counters, residual and windows; floor(N / 512) windows were
\* evaluated and N mod 512 samples are left.
C35_ChunkingIrrelevant ==
  /\ OneCall.vad = vad
  /\ OneCall.trace = vad_trace
  /\ Len(vad_trace) = vad_call.total \div 512
  /\ vad.buffer = vad_call.total % 512

\* 2368 samples in four calls, of which two evaluated no window.
C35_Witness ==
  /\ vad_call.total = 256 + 256 + 256 + 1600
  /\ Len(vad_trace) = 4
  /\ vad.is_speech = FALSE
  /\ vad.speech_ms = 96

(***************************************************************************)
(* The order of the chunks, and chunks after stop().                       *)
(*                                                                         *)
(* CaptureOrderSpec is the pipeline of Spec with the hardware buffers      *)
(* numbered and with one iteration of the processing loop in three steps   *)
(* instead of two: the thread takes a buffer off the raw queue and         *)
(* converts it (Take), calls the callback (Invoke), and the callback       *)
(* returns (ProcessAudioLoopCallback).  Another thread can run between     *)
(* the get() and the call.  The hardware delivers one buffer of            *)
(* frames_per_buffer frames at a time.                                     *)
(***************************************************************************)
MaxOrderBuffers == 3  \* hardware buffers delivered over the whole run

\* _audio_callback, the buffer numbered in the order of delivery.
AudioCallbackNumbered ==
  /\ stream # NoDevice
  /\ nbuf < MaxOrderBuffers
  /\ audio_queue' = Append(audio_queue,
         [n |-> calculate_chunk_size(stream.rate) * stream.channels,
          ep |-> epoch, st |-> Stopped, id |-> nbuf + 1])
  /\ nbuf' = nbuf + 1
  /\ UNCHANGED << ctl, lastOp, pipeVars, workerVars, buffer, is_running,
                  callback, pyaudio, stream, capture_thread, capThreadVars,
                  epoch, nseg, histVars >>
  /\ UNCHANGED detailVars

\* raw_data = self._audio_queue.get(timeout=0.1), or queue.Empty and
\* continue; np.frombuffer, mono, resample.
ProcessAudioLoopTake(j) ==
  /\ cpc[j] = "get"
  /\ IF audio_queue = << >>
     THEN /\ cpc' = [cpc EXCEPT ![j] = "top"]
          /\ UNCHANGED << audio_queue, cchunk >>
     ELSE LET raw == Head(audio_queue)
              len == resample(to_mono(raw.n, cargs[j].channels), cargs[j].rate)
          IN /\ audio_queue' = Tail(audio_queue)
             /\ cchunk' = [cchunk EXCEPT ![j] =
                             [len |-> len, ep |-> raw.ep, st |-> raw.st,
                              id |-> raw.id]]
             /\ cpc' = [cpc EXCEPT ![j] = "got"]
  /\ UNCHANGED << ctl, lastOp, pipeVars, workerVars, buffer, is_running,
                  callback, pyaudio, stream, capture_thread, cargs, epoch,
                  nbuf, nseg, histVars >>
  /\ UNCHANGED detailVars

\* if self._callback and len(audio) > 0: self._callback(audio, SAMPLE_RATE)
\* is entered.
ProcessAudioLoopInvoke(j) ==
  /\ cpc[j] = "got"
  /\ IF callback /\ cchunk[j].len > 0
     THEN /\ cpc' = [cpc EXCEPT ![j] = "cb"]
          /\ delivered' = Append(delivered,
                                 [id |-> cchunk[j].id, ep |-> cchunk[j].ep])
          /\ UNCHANGED cchunk
     ELSE /\ cpc' = [cpc EXCEPT ![j] = "top"]
          /\ cchunk' = [cchunk EXCEPT ![j] = NoAudio]
          /\ UNCHANGED delivered
  /\ UNCHANGED << ctl, lastOp, pipeVars, workerVars, buffer, capVars, cargs,
                  epoch, nbuf, nseg, histVars, translator, handled, vad,
                  vad_trace, vad_call, accumulator, start_calls >>

CaptureThreadSteps(j) ==
  \/ ProcessAudioLoopTop(j)
  \/ ProcessAudioLoopTake(j)
  \/ ProcessAudioLoopInvoke(j)
  \/ ProcessAudioLoopCallback(j)

CaptureOrderNext ==
  \/ Controller
  \/ AudioCallbackNumbered
  \/ \E j \in Threads : CaptureThreadSteps(j)
  \/ \E i \in Threads : Worker(i)

CaptureOrderSpec == Init /\ [][CaptureOrderNext]_vars

\* C36: the chunks of the buffers of one run (from a start() to the stop()
\* that follows) are handed to onChunk in the order the hardware delivered
\* the buffers, each at most once.
C36_ChunksInBufferOrder ==
  \A a, b \in 1..Len(delivered) :
    (a < b /\ delivered[a].ep = delivered[b].ep) =>
      delivered[a].id < delivered[b].id

\* C37: once AudioCapture.stop() has returned, and until the next start(),
\* no chunk is handed to onChunk.
C37_NoChunkAfterStop ==
  [][CaptureStopped => delivered' = delivered]_vars

(***************************************************************************)
(* Events after stop(), and the flag after a failed start: properties of   *)
(* Spec.                                                                   *)
(***************************************************************************)

\* C38: once stop() has returned, and until the next start(), no event is
\* handed to on_subtitle.
C38_NoEventAfterStop ==
  [][Stopped => events' = events]_vars

\* C39: when AudioCapture.start() has raised, the driver's running flag is
\* false, so that the next start() opens the device again.
C39_FailedStartClearsFlag ==
  FailedStart => ~is_running

(***************************************************************************)
(* A callback that raises.                                                 *)
(*                                                                         *)
(* CaptureFailSpec is the running pipeline of CaptureLoopSpec, capture     *)
(* side only, in which a call of the callback may raise.                   *)
(* _process_audio_loop has no try around it: the exception leaves the      *)
(* loop and the thread ends.                                               *)
(***************************************************************************)

\* self._callback(audio, SAMPLE_RATE) returns, or raises.
ProcessAudioLoopCallbackOutcome(j) ==
  \/ ProcessAudioLoopCallback(j)
  \/ /\ cpc[j] = "cb"
     /\ cpc' = [cpc EXCEPT ![j] = "dead"]
     /\ cchunk' = [cchunk EXCEPT ![j] = NoAudio]
     /\ UNCHANGED << ctl, lastOp, pipeVars, workerVars, buffer, capVars,
                     cargs, epoch, nbuf, nseg, histVars >>
     /\ UNCHANGED detailVars

CaptureFailNext ==
  \/ AudioCallbackFrames
  \/ ProcessAudioLoopTop(1)
  \/ ProcessAudioLoopGet(1)
  \/ ProcessAudioLoopCallbackOutcome(1)

CaptureFailSpec == CaptureLoopInit /\ [][CaptureFailNext]_vars

\* C40: a processing loop ends only when the driver's flag is false; a
\* callback that raised for one chunk leaves it running for the buffers
\* that follow.
C40_ChunkFailureIsolated ==
  \A j \in Threads : cpc[j] = "dead" => ~is_running
====
